---- MODULE Spec2Model ----
(***************************************************************************)
(* Model of ShopifyGraphQl.execute (n8n node): the per-item loop, the      *)
(* operation dispatch, the returnAll pagination loops of getProducts and   *)
(* getOrders, the single-request path, and the catch / continueOnFail      *)
(* handler.  The Shopify endpoint is the environment: a backend holding    *)
(* the items 1..N in server order, serving cursor-paginated pages.         *)
(***************************************************************************)
EXTENDS Integers, Sequences, FiniteSets, TLC

\* ---------------------------------------------------------------- bounds
\* largest backend result set (the spec's test size: 250 + 250 + 37)
MaxN == 537
\* largest number of input items handed to execute
MaxItems == 2
\* cap on the number of HTTP requests of one execution (keeps a
\* non-terminating pagination loop finite)
MaxRequests == 7

\* ------------------------------------------------------ program constants
\* products(first: 250, ...) / orders(first: 250, ...)
PageSize == 250
\* typeOptions of the 'limit' property
LimitMinValue == 1
LimitMaxValue == 250
LimitDefault == 10

\* JavaScript null / undefined, and "the key is not in the object"
NULL == "<null>"
UNDEFINED == "<undefined>"

Operations == {"query", "getProductBySku", "getProducts", "getOrders"}

\* the options of the 'operation' property: display name and value
OperationOptions ==
    { [name |-> "Execute Query",      value |-> "query"],
      [name |-> "Get Product by SKU", value |-> "getProductBySku"],
      [name |-> "Get Products",       value |-> "getProducts"],
      [name |-> "Get Orders",         value |-> "getOrders"] }

\* the operations the README says the node supports
ReadmeOperations ==
    { "Execute Query", "Get Collection by Name", "Get Product by SKU",
      "Get Products", "Get Orders", "Update Inventory" }

\* the default of the 'query' property, standing for the user's query text
UserQuery == "{ shop { name email } }"

\* the query text execute sends for an operation value: the if / else chain
\* over `operation` (kind "page": the paginationQuery of a returnAll run);
\* a value no branch tests leaves `let query = ''` as it is
BuildQuery(op, kind) ==
    CASE op = "query" -> UserQuery
      [] op = "getProductBySku" -> "query GetProductBySku($query: String!)"
      [] op = "getProducts" ->
             IF kind = "page"
             THEN "query GetProducts($query: String!, $cursor: String)"
             ELSE "query GetProducts($limit: Int!, $query: String!)"
      [] op = "getOrders" ->
             IF kind = "page" THEN "query GetOrders($cursor: String)"
             ELSE "query GetOrders($limit: Int!)"
      [] OTHER -> ""

Min(a, b) == IF a <= b THEN a ELSE b

\* ---------------------------------------------------------------- JSON.parse
\* The variables parameter as a sequence of tokens: "{" "}" "," and "m" for
\* one "key": value member, "null" and "1" for scalar documents.
VariablesStrings ==
    { <<"{", "}">>,                       \* {}
      <<"{", "m", ",", "m", "}">>,        \* {"a": 1, "b": 2}
      <<"null">>,                         \* null
      <<"{", "m">>,                       \* {"a": 1        (unterminated)
      <<"{", "m", ",", "}">>,             \* {"a": 1,}      (trailing comma)
      <<>> }                              \* empty string

\* (mutant) only the first token is looked at
JsonParsesPrefix(toks) == Len(toks) = 0 \/ toks[1] \in {"{", "null", "1"}

\* members ::= "m" ("," "m")* ; TRUE iff toks[k..] is members followed by "}"
\* and nothing else
RECURSIVE MembersThenClose(_, _)
MembersThenClose(toks, k) ==
    IF k + 1 > Len(toks) THEN FALSE
    ELSE IF toks[k] # "m" THEN FALSE
    ELSE IF toks[k + 1] = "}" THEN k + 1 = Len(toks)
    ELSE IF toks[k + 1] = "," THEN MembersThenClose(toks, k + 2)
    ELSE FALSE

\* JSON.parse(variablesString) returns (TRUE) or throws SyntaxError (FALSE)
JsonParses(toks) ==
    IF Len(toks) = 0 THEN FALSE
    ELSE IF toks[1] \in {"null", "1"} THEN Len(toks) = 1
    ELSE IF toks[1] = "{"
         THEN IF Len(toks) >= 2 /\ toks[2] = "}" THEN Len(toks) = 2
              ELSE MembersThenClose(toks, 2)
    ELSE FALSE

\* ---------------------------------------------------------------- state
VARIABLES
    operation,       \* getNodeParameter('operation', 0)
    continueOnFail,  \* this.continueOnFail()
    numItems,        \* items.length
    backend,         \* the shop: [N, pageCap, blankPage]
    i,               \* index of the item being processed (0-based)
    pc,              \* "item" | "awaitPage" | "awaitSingle" | "returned" | "failed"
    params,          \* the parameters read for each item begun so far
    hasNextPage,     \* pagination loop local
    cursor,          \* pagination loop local: string | null
    allProducts,     \* pagination loop local (allProducts / allOrders)
    returnData,      \* output records
    thrown,          \* the error execute rejected with
    requests,        \* every HTTP POST issued, in order
    responses        \* the outcome of every completed HTTP POST, in order

vars == <<operation, continueOnFail, numItems, backend, i, pc, params,
          hasNextPage, cursor, allProducts, returnData, thrown,
          requests, responses>>

\* ---------------------------------------------------------------- backend
\* Sizes and page caps of the backends explored.  blankPage = 1: the
\* backend's opaque cursor for the end of its first full page is the empty
\* string (blankPage = 0: every cursor is a non-empty string).
Sizes == {0, 1, PageSize, PageSize + 1, 2 * PageSize, MaxN}
PageCaps == {PageSize, PageSize - 50}
Backends ==
    { b \in [N : Sizes, pageCap : PageCaps, blankPage : {0, 1}] :
        \/ b.pageCap = PageSize /\ b.blankPage = 0
        \/ b.pageCap < PageSize /\ b.blankPage = 0 /\ b.N \in {PageSize, MaxN}
        \/ b.pageCap = PageSize /\ b.blankPage = 1 /\ b.N \in {PageSize, PageSize + 1} }

\* The opaque cursor the backend issues for "after the p-th item"
Encode(p) ==
    IF backend.blankPage > 0 /\ p = backend.blankPage * backend.pageCap
    THEN "" ELSE ToString(p)

Decode(c) == CHOOSE p \in 1..(MaxN + 1) : Encode(p) = c

\* The page the backend serves for a request: `first` items after `after`
ServerPage(req) ==
    LET pos   == IF req.after \in {UNDEFINED, NULL} THEN 0 ELSE Decode(req.after)
        avail == IF backend.N > pos THEN backend.N - pos ELSE 0
        want  == IF req.first > 0 THEN req.first ELSE 0
        count == Min(Min(want, backend.pageCap), avail)
    IN  [items       |-> [k \in 1..count |-> pos + k],
         hasNextPage |-> pos + count < backend.N,
         endCursor   |-> IF count = 0 THEN NULL ELSE Encode(pos + count)]

\* What one HTTP POST can come back with: data only, an errors payload
\* (without or with data next to it), or a transport failure (httpRequest
\* rejects).
ResponseKinds == {"ok", "errors", "errorsAndData", "transport"}

ErrorsPayload == "[{\"message\":\"Throttled\"}]"

ServerResponse(req, kind) ==
    [kind    |-> kind,
     errors  |-> IF kind \in {"errors", "errorsAndData"} THEN ErrorsPayload
                 ELSE UNDEFINED,
     hasData |-> kind \in {"ok", "errorsAndData"},
     data    |-> ServerPage(req)]

\* ---------------------------------------------------------------- helpers
\* JavaScript truthiness of a string | null | undefined value
Truthy(v) == v \notin {NULL, UNDEFINED, ""}

NoError == [name |-> "none", message |-> "", itemIndex |-> -1]

\* new NodeOperationError(node, 'Variables must be valid JSON', {itemIndex})
ValidationError(idx) ==
    [name |-> "NodeOperationError",
     message |-> "Variables must be valid JSON", itemIndex |-> idx]

\* new NodeOperationError(node, `GraphQL Error: ${JSON.stringify(errors)}`, ...)
GraphQlError(errors, idx) ==
    [name |-> "NodeOperationError",
     message |-> "GraphQL Error: " \o errors, itemIndex |-> idx]

\* what this.helpers.httpRequest rejects with
TransportError == [name |-> "Error", message |-> "request failed", itemIndex |-> -1]

\* (mutant) the error record also carries what the loop had accumulated
ErrorRecordWithPartial(err, idx) ==
    [pairedItem |-> idx, key |-> "error", items |-> allProducts, message |-> err.message]

\* { json: { error: message }, pairedItem: { item: i } }
ErrorRecord(err, idx) ==
    [pairedItem |-> idx, key |-> "error", items |-> <<>>, message |-> err.message]

\* (mutant) every result is paired with the first item
ResultRecordItemZero(key, its, idx) ==
    [pairedItem |-> 0, key |-> key, items |-> its, message |-> ""]

\* { json: { products: allProducts }, pairedItem: { item: i } } and the like
ResultRecord(key, its, idx) ==
    [pairedItem |-> idx, key |-> key, items |-> its, message |-> ""]

\* the for loop's condition after i++ / continue
NextPc(j) == IF j < numItems THEN "item" ELSE "returned"

\* number of requests issued so far for item idx
RequestsOf(idx) == Cardinality({k \in 1..Len(requests) : requests[k].item = idx})

\* (mutant) errors are ignored when data came along with them
HasErrorsAndNoData(resp) == Truthy(resp.errors) /\ ~resp.hasData

\* if (response.errors)
HasErrors(resp) == Truthy(resp.errors)

\* (mutant) the page replaces the accumulation instead of extending it
AccumulateOverwrite(all, page) == page

\* allProducts.push(...products)
Accumulate(all, page) == all \o page

\* (mutant) the loop goes on until a page comes back empty
ContinueLoopUntilEmpty(resp) == Len(resp.data.items) > 0

\* while (hasNextPage), with hasNextPage = ...pageInfo.hasNextPage
ContinueLoop(resp) == resp.data.hasNextPage

\* (mutant) the cursor key is always sent, null included
PaginationVarsAlways(c) == c

\* paginationVars: the cursor key is present only when cursor is truthy
PaginationVars(c) == IF Truthy(c) THEN c ELSE UNDEFINED

PageRequest(c) ==
    [item |-> i, page |-> RequestsOf(i) + 1, kind |-> "page",
     query |-> BuildQuery(operation, "page"),
     first |-> PageSize, after |-> PaginationVars(c)]

\* (mutant) the single request asks for a full page whatever the limit is
SingleRequestFullPage(kind, first) ==
    [item |-> i, page |-> 1, kind |-> kind, query |-> BuildQuery(operation, kind),
     first |-> PageSize, after |-> UNDEFINED]

\* the request after the if / else chain: body { query, variables }
SingleRequest(kind, first) ==
    [item |-> i, page |-> 1, kind |-> kind, query |-> BuildQuery(operation, kind),
     first |-> first, after |-> UNDEFINED]

ResponseLog(req, resp) ==
    [item |-> req.item, page |-> req.page, kind |-> resp.kind,
     errors |-> resp.errors, hasData |-> resp.hasData,
     count |-> Len(resp.data.items),
     hasNextPage |-> resp.data.hasNextPage, endCursor |-> resp.data.endCursor]

LoopLocalsReset ==
    /\ hasNextPage' = FALSE
    /\ cursor' = NULL
    /\ allProducts' = <<>>

\* (mutant) malformed variables always fail hard; only request failures are
\* turned into error records
CatchExceptValidation(err) ==
    /\ IF continueOnFail /\ err.message # "Variables must be valid JSON"
       THEN /\ returnData' = Append(returnData, ErrorRecord(err, i))
            /\ i' = i + 1
            /\ pc' = NextPc(i + 1)
            /\ thrown' = thrown
       ELSE /\ pc' = "failed"
            /\ thrown' = err
            /\ UNCHANGED <<returnData, i>>
    /\ LoopLocalsReset

\* (mutant) a failed item is tried again instead of being given up
CatchRetryItem(err) ==
    /\ pc' = "item"
    /\ UNCHANGED <<returnData, i, thrown>>
    /\ LoopLocalsReset

\* (mutant) the failure is swallowed whether or not continue-on-fail is set
CatchAlwaysContinue(err) ==
    /\ returnData' = Append(returnData, ErrorRecord(err, i))
    /\ i' = i + 1
    /\ pc' = NextPc(i + 1)
    /\ thrown' = thrown
    /\ LoopLocalsReset

\* catch (error) { if (this.continueOnFail()) { push; continue; } throw error; }
Catch(err) ==
    /\ IF continueOnFail
       THEN /\ returnData' = Append(returnData, ErrorRecord(err, i))
            /\ i' = i + 1
            /\ pc' = NextPc(i + 1)
            /\ thrown' = thrown
       ELSE /\ pc' = "failed"
            /\ thrown' = err
            /\ UNCHANGED <<returnData, i>>
    /\ LoopLocalsReset

\* returnData.push(record); then the next iteration of the item loop
PushAndContinue(rec) ==
    /\ returnData' = Append(returnData, rec)
    /\ i' = i + 1
    /\ pc' = NextPc(i + 1)
    /\ thrown' = thrown
    /\ LoopLocalsReset

Limits == {LimitMinValue, LimitDefault, LimitMaxValue + 1}

NoParams == [returnAll |-> FALSE, limit |-> 0, variables |-> <<>>]

ListingKey == IF operation = "getProducts" THEN "products" ELSE "orders"

\* ---------------------------------------------------------------- Init
Init ==
    /\ operation \in Operations
    /\ continueOnFail \in BOOLEAN
    /\ numItems \in 1..MaxItems
    /\ backend \in Backends
    /\ i = 0
    /\ pc = "item"
    /\ params = <<>>
    /\ hasNextPage = FALSE
    /\ cursor = NULL
    /\ allProducts = <<>>
    /\ returnData = <<>>
    /\ thrown = NoError
    /\ requests = <<>>
    /\ responses = <<>>

\* ---------------------------------------------------------------- actions
\* operation === 'query': parse the variables, then POST the custom query
BeginQuery ==
    /\ pc = "item" /\ operation = "query"
    /\ Len(requests) < MaxRequests
    /\ \E v \in VariablesStrings :
        /\ params' = Append(params, [NoParams EXCEPT !.variables = v])
        /\ IF JsonParses(v)
           THEN /\ requests' = Append(requests, SingleRequest("query", PageSize))
                /\ pc' = "awaitSingle"
                /\ UNCHANGED <<i, returnData, thrown, hasNextPage, cursor, allProducts>>
           ELSE /\ Catch(ValidationError(i))
                /\ UNCHANGED requests
    /\ UNCHANGED <<operation, continueOnFail, numItems, backend, responses>>

\* (mutant) the request is sent without awaiting it and the loop moves on
BeginGetProductBySkuNoAwait ==
    /\ pc = "item" /\ operation = "getProductBySku"
    /\ Len(requests) < MaxRequests
    /\ params' = Append(params, NoParams)
    /\ requests' = Append(requests, SingleRequest("sku", 1))
    /\ i' = i + 1
    /\ pc' = NextPc(i + 1)
    /\ UNCHANGED <<operation, continueOnFail, numItems, backend, returnData,
                   thrown, hasNextPage, cursor, allProducts, responses>>

\* operation === 'getProductBySku': products(first: 1, query: "sku:...")
BeginGetProductBySku ==
    /\ pc = "item" /\ operation = "getProductBySku"
    /\ Len(requests) < MaxRequests
    /\ params' = Append(params, NoParams)
    /\ requests' = Append(requests, SingleRequest("sku", 1))
    /\ pc' = "awaitSingle"
    /\ UNCHANGED <<operation, continueOnFail, numItems, backend, i, returnData,
                   thrown, hasNextPage, cursor, allProducts, responses>>

\* getProducts / getOrders with returnAll: enter the while loop and POST the
\* first page
BeginFetchAll ==
    /\ pc = "item" /\ operation \in {"getProducts", "getOrders"}
    /\ Len(requests) < MaxRequests
    /\ params' = Append(params, [NoParams EXCEPT !.returnAll = TRUE])
    /\ hasNextPage' = TRUE
    /\ cursor' = NULL
    /\ allProducts' = <<>>
    /\ requests' = Append(requests, PageRequest(NULL))
    /\ pc' = "awaitPage"
    /\ UNCHANGED <<operation, continueOnFail, numItems, backend, i, returnData,
                   thrown, responses>>

\* getProducts / getOrders without returnAll: one POST with first: $limit
BeginFetchLimited ==
    /\ pc = "item" /\ operation \in {"getProducts", "getOrders"}
    /\ Len(requests) < MaxRequests
    /\ \E limit \in Limits :
        /\ params' = Append(params, [NoParams EXCEPT !.limit = limit])
        /\ requests' = Append(requests, SingleRequest("limited", limit))
    /\ pc' = "awaitSingle"
    /\ UNCHANGED <<operation, continueOnFail, numItems, backend, i, returnData,
                   thrown, hasNextPage, cursor, allProducts, responses>>

\* a page request completes: errors check, accumulate, advance the cursor,
\* then either POST the next page or push the item's record
ReceivePage ==
    /\ pc = "awaitPage"
    /\ Len(requests) < MaxRequests
    /\ \E kind \in ResponseKinds :
        LET req  == requests[Len(requests)]
            resp == ServerResponse(req, kind)
            all  == Accumulate(allProducts, resp.data.items)
        IN  /\ responses' = Append(responses, ResponseLog(req, resp))
            /\ IF kind = "transport"
               THEN Catch(TransportError) /\ UNCHANGED requests
               ELSE IF HasErrors(resp)
               THEN Catch(GraphQlError(resp.errors, i)) /\ UNCHANGED requests
               ELSE IF ContinueLoop(resp)
               THEN /\ allProducts' = all
                    /\ hasNextPage' = resp.data.hasNextPage
                    /\ cursor' = resp.data.endCursor
                    /\ requests' = Append(requests, PageRequest(resp.data.endCursor))
                    /\ UNCHANGED <<pc, i, returnData, thrown>>
               ELSE /\ PushAndContinue(ResultRecord(ListingKey, all, i))
                    /\ UNCHANGED requests
    /\ UNCHANGED <<operation, continueOnFail, numItems, backend, params>>

\* the single request completes: errors check, push response.data
ReceiveSingle ==
    /\ pc = "awaitSingle"
    /\ \E kind \in ResponseKinds :
        LET req  == requests[Len(requests)]
            resp == ServerResponse(req, kind)
        IN  /\ responses' = Append(responses, ResponseLog(req, resp))
            /\ IF kind = "transport"
               THEN Catch(TransportError)
               ELSE IF HasErrors(resp)
               THEN Catch(GraphQlError(resp.errors, i))
               ELSE PushAndContinue(ResultRecord("data", resp.data.items, i))
    /\ UNCHANGED <<operation, continueOnFail, numItems, backend, params, requests>>

Next ==
    \/ BeginQuery
    \/ BeginGetProductBySku
    \/ BeginFetchAll
    \/ BeginFetchLimited
    \/ ReceivePage
    \/ ReceiveSingle

Spec == Init /\ [][Next]_vars

\* ---------------------------------------------------------------- typing
TypeOK ==
    /\ i \in 0..numItems
    /\ pc \in {"item", "awaitPage", "awaitSingle", "returned", "failed"}
    /\ Len(requests) <= MaxRequests

\* ---------------------------------------------------------------- claims
\* the records of item idx in the output
RecordsOf(idx) == {k \in 1..Len(returnData) : returnData[k].pairedItem = idx}

\* item idx was begun as a returnAll run / as a limited listing
IsFetchAll(idx) == idx < Len(params) /\ params[idx + 1].returnAll
IsLimited(idx) ==
    /\ idx < Len(params) /\ ~params[idx + 1].returnAll
    /\ operation \in {"getProducts", "getOrders"}

\* the backend's items in server order
ServerOrder == [k \in 1..backend.N |-> k]

\* the size of the pages the backend serves to a returnAll run
ServedPageSize == Min(PageSize, backend.pageCap)

Ceil(a, b) == (a + b - 1) \div b

\* sum of the item counts of the completed requests k..Len(responses) of item idx
RECURSIVE CountFrom(_, _)
CountFrom(idx, k) ==
    IF k > Len(responses) THEN 0
    ELSE (IF responses[k].item = idx THEN responses[k].count ELSE 0)
         + CountFrom(idx, k + 1)

\* C1: a returnAll run that ends without error returns exactly the N backend
\* items, each once, in server order, as the concatenation of the pages
\* fetched (the page sizes add up to the length of the result).
C1_FetchAllComplete ==
    \A k \in 1..Len(returnData) :
        LET rec == returnData[k] IN
        (IsFetchAll(rec.pairedItem) /\ rec.key # "error") =>
            /\ rec.key = ListingKey
            /\ rec.items = ServerOrder
            /\ Len(rec.items) = CountFrom(rec.pairedItem, 1)

\* a run of three pages over the largest backend has returned
C1_Witness ==
    \E k \in 1..Len(returnData) :
        /\ IsFetchAll(returnData[k].pairedItem)
        /\ returnData[k].key # "error"
        /\ Len(returnData[k].items) = MaxN
        /\ RequestsOf(returnData[k].pairedItem) >= 3

\* C2: the first page request of a run carries no cursor and every later
\* page request carries exactly the endCursor of the response before it.
C2_CursorChaining ==
    \A k \in 1..Len(requests) :
        requests[k].kind = "page" =>
            IF requests[k].page = 1
            THEN requests[k].after = UNDEFINED
            ELSE requests[k].after = responses[k - 1].endCursor

\* C3: when page request k of a run fails, no further request of that run
\* is issued and nothing accumulated reaches the caller: the item has no
\* result record, and its error record (continue-on-fail) holds no items.
C3_FailFast ==
    \A k \in 1..Len(responses) :
        (requests[k].kind = "page" /\ responses[k].kind # "ok") =>
            LET it == requests[k].item IN
            /\ \A m \in (k + 1)..Len(requests) : requests[m].item # it
            /\ \A r \in RecordsOf(it) :
                   returnData[r].key = "error" /\ returnData[r].items = <<>>
            /\ IF continueOnFail
               THEN Cardinality(RecordsOf(it)) = 1
               ELSE pc = "failed" /\ i = it /\ thrown # NoError

\* the second page of a run failed with an errors payload after a first
\* page of items, under continue-on-fail
C3_Witness ==
    \E k \in 2..Len(responses) :
        /\ requests[k].kind = "page" /\ requests[k].page = 2
        /\ responses[k].kind = "errors"
        /\ responses[k - 1].count > 0
        /\ continueOnFail
        /\ RecordsOf(requests[k].item) # {}

\* C4: a response holding both data and a non-empty errors array is a
\* failure on every request path: 'GraphQL Error: <payload>' is raised and
\* the data is never pushed.
C4_ErrorPrecedence ==
    \A k \in 1..Len(responses) :
        (responses[k].hasData /\ responses[k].errors = ErrorsPayload) =>
            LET it  == requests[k].item
                msg == "GraphQL Error: " \o ErrorsPayload
            IN  /\ \A r \in RecordsOf(it) :
                       /\ returnData[r].key = "error"
                       /\ returnData[r].message = msg
                       /\ returnData[r].items = <<>>
                /\ IF continueOnFail
                   THEN RecordsOf(it) # {}
                   ELSE /\ pc = "failed"
                        /\ thrown.name = "NodeOperationError"
                        /\ thrown.message = msg
                        /\ thrown.itemIndex = it

\* a limited listing got data together with errors
C4_Witness ==
    \E k \in 1..Len(responses) :
        /\ responses[k].kind = "errorsAndData"
        /\ responses[k].count > 0
        /\ requests[k].kind = "limited"
        /\ pc = "failed"

\* variables strings that are not JSON documents
MalformedVariables ==
    { <<"{", "m">>, <<"{", "m", ",", "}">>, <<>> }

\* C5: for the custom query, an item whose variables string is not valid
\* JSON raises 'Variables must be valid JSON' and issues no request.
C5_ValidationBeforeNetwork ==
    \A idx \in 0..(Len(params) - 1) :
        (operation = "query" /\ params[idx + 1].variables \in MalformedVariables) =>
            /\ RequestsOf(idx) = 0
            /\ IF continueOnFail
               THEN \E r \in RecordsOf(idx) :
                       /\ returnData[r].key = "error"
                       /\ returnData[r].message = "Variables must be valid JSON"
               ELSE /\ pc = "failed"
                    /\ thrown = ValidationError(idx)

\* the second item had malformed variables after a first item that was sent
C5_Witness ==
    /\ operation = "query"
    /\ Len(params) = 2
    /\ params[2].variables = <<"{", "m", ",", "}">>
    /\ RequestsOf(0) = 1
    /\ pc = "failed"

\* the number of pages a backend of N items has (an empty listing is one
\* empty page)
PagesOfBackend == IF backend.N = 0 THEN 1 ELSE Ceil(backend.N, ServedPageSize)

\* C6: a returnAll run that ends without error has issued exactly
\* ceil(N / pageSize) requests, for every N >= 0 (pageSize: the size of the
\* pages served).
C6_RequestCount ==
    \A k \in 1..Len(returnData) :
        (IsFetchAll(returnData[k].pairedItem) /\ returnData[k].key # "error") =>
            RequestsOf(returnData[k].pairedItem) = Ceil(backend.N, ServedPageSize)

\* C6 (amended): ceil(N / pageSize) requests for N >= 1, one request for N = 0
C6_RequestCountAmended ==
    \A k \in 1..Len(returnData) :
        (IsFetchAll(returnData[k].pairedItem) /\ returnData[k].key # "error") =>
            RequestsOf(returnData[k].pairedItem) =
                (IF backend.N = 0 THEN 1 ELSE Ceil(backend.N, ServedPageSize))

\* two returnAll runs over 537 items in pages of 250 have returned after
\* three requests each
C6_Witness ==
    /\ backend.N = MaxN /\ backend.pageCap = PageSize
    /\ pc = "returned" /\ Len(returnData) = 2
    /\ \A k \in 1..2 : returnData[k].key # "error" /\ IsFetchAll(k - 1)
    /\ RequestsOf(0) = 3 /\ RequestsOf(1) = 3

\* C7: a returnAll run against an empty result set issues exactly one
\* request, without cursor, and returns an empty sequence.
C7_EmptyResultSet ==
    \A idx \in 0..(Len(params) - 1) :
        (IsFetchAll(idx) /\ backend.N = 0) =>
            /\ RequestsOf(idx) = 1
            /\ \A k \in 1..Len(requests) :
                   requests[k].item = idx =>
                       requests[k].after = UNDEFINED /\ requests[k].first = PageSize
            /\ \A r \in RecordsOf(idx) :
                   returnData[r].key # "error" =>
                       returnData[r].key = ListingKey /\ returnData[r].items = <<>>

\* the run over the empty backend has returned its empty record
C7_Witness ==
    /\ backend.N = 0
    /\ \E k \in 1..Len(returnData) :
           /\ IsFetchAll(returnData[k].pairedItem)
           /\ returnData[k].key # "error"
           /\ returnData[k].items = <<>>

\* C8: a returnAll run issues the next page request exactly when a
\* successful response reports hasNextPage = true (it stops right after the
\* first hasNextPage = false and never earlier), and over a finite backend
\* whose cursors are non-null and advance it finishes: it never needs more
\* requests than the backend has pages.
C8_Termination ==
    \A idx \in 0..(Len(params) - 1) :
        IsFetchAll(idx) =>
            /\ \A k \in 1..Len(responses) :
                   (requests[k].item = idx /\ responses[k].kind = "ok") =>
                       (responses[k].hasNextPage <=>
                            (k + 1 <= Len(requests) /\ requests[k + 1].item = idx))
            /\ RequestsOf(idx) <= PagesOfBackend

\* C9: a limited listing issues exactly one request per item, first = the
\* item's limit and no cursor, and the item's output is that one page: the
\* first min(limit, N) items the backend serves.
C9_BoundedMode ==
    \A idx \in 0..(Len(params) - 1) :
        IsLimited(idx) =>
            LET limit == params[idx + 1].limit
                want  == IF limit > 0 THEN limit ELSE 0
                n     == Min(Min(want, backend.pageCap), backend.N)
            IN  /\ RequestsOf(idx) = 1
                /\ \A k \in 1..Len(requests) :
                       requests[k].item = idx =>
                           /\ requests[k].kind = "limited"
                           /\ requests[k].first = limit
                           /\ requests[k].after = UNDEFINED
                /\ \A r \in RecordsOf(idx) :
                       returnData[r].key # "error" =>
                           /\ returnData[r].key = "data"
                           /\ returnData[r].items = SubSeq(ServerOrder, 1, n)

\* limit 10 against a backend of one item: one request, one item returned
C9_Witness ==
    /\ backend.N = 1
    /\ \E idx \in 0..(Len(params) - 1) :
           /\ IsLimited(idx) /\ params[idx + 1].limit = LimitDefault
           /\ \E r \in RecordsOf(idx) : Len(returnData[r].items) = 1

\* item idx failed: a request of it failed, or its variables did not parse
FailedAt(idx) ==
    \/ \E k \in 1..Len(responses) :
           requests[k].item = idx /\ responses[k].kind # "ok"
    \/ /\ operation = "query" /\ idx < Len(params)
       /\ params[idx + 1].variables \in MalformedVariables

\* the message of the error item idx failed with
FailureMessage(idx) ==
    IF operation = "query" /\ params[idx + 1].variables \in MalformedVariables
    THEN "Variables must be valid JSON"
    ELSE LET k == CHOOSE m \in 1..Len(responses) :
                      requests[m].item = idx /\ responses[m].kind # "ok"
         IN  IF responses[k].kind = "transport" THEN TransportError.message
             ELSE "GraphQL Error: " \o ErrorsPayload

\* C10: without continue-on-fail, a failure of item k makes execute fail
\* with that error and no item after k is begun or sends a request; error
\* records are produced only with continue-on-fail enabled.
C10_DefaultFailurePolicy ==
    /\ ~continueOnFail =>
           \A idx \in 0..(numItems - 1) :
               FailedAt(idx) =>
                   /\ pc = "failed" /\ i = idx
                   /\ thrown.message = FailureMessage(idx)
                   /\ Len(params) = idx + 1
                   /\ \A m \in 1..Len(requests) : requests[m].item <= idx
                   /\ RecordsOf(idx) = {}
    /\ (\E r \in 1..Len(returnData) : returnData[r].key = "error") => continueOnFail

\* the first of two items failed and execute rejected
C10_Witness ==
    /\ ~continueOnFail /\ numItems = 2
    /\ FailedAt(0) /\ pc = "failed" /\ i = 0
    /\ thrown.name = "NodeOperationError"

\* the message the failure logged as resp is raised with
MessageOf(resp) ==
    IF resp.kind = "transport" THEN TransportError.message
    ELSE "GraphQL Error: " \o resp.errors

\* C11: every page fetch and every single query is one HTTP POST: no two
\* requests are for the same page of the same item, a request that failed
\* (transport or errors payload) is followed by no further request of its
\* item, and the failure propagated is that first one.
C11_NoRetry ==
    /\ \A k, m \in 1..Len(requests) :
           (k < m /\ requests[k].item = requests[m].item) =>
               /\ requests[k].kind = "page" /\ requests[m].kind = "page"
               /\ requests[k].page < requests[m].page
    /\ \A k \in 1..Len(responses) :
           responses[k].kind # "ok" =>
               LET it == requests[k].item IN
               /\ \A m \in 1..Len(requests) : m > k => requests[m].item # it
               /\ \A m \in 1..Len(responses) :
                      (responses[m].item = it /\ responses[m].kind # "ok") => m = k
               /\ IF continueOnFail
                  THEN \E r \in RecordsOf(it) :
                           returnData[r].message = MessageOf(responses[k])
                  ELSE thrown.message = MessageOf(responses[k])

\* the first item's request failed at transport level, and the second
\* item's request has since been sent and answered
C11_Witness ==
    /\ Len(responses) >= 2
    /\ responses[1].kind = "transport" /\ responses[1].item = 0
    /\ requests[2].item = 1
    /\ responses[2].kind = "ok"

\* C12: at most one HTTP request is outstanding, and only while execute is
\* suspended on it; every request but the last has been answered before the
\* next one was sent, a page request follows the previous page of its run,
\* and requests are issued in item order, all of item i before any of a
\* later item.
C12_Sequential ==
    /\ Len(requests) - Len(responses) \in {0, 1}
    /\ (Len(requests) - Len(responses) = 1) <=> (pc \in {"awaitPage", "awaitSingle"})
    /\ \A k \in 1..Len(responses) :
           responses[k].item = requests[k].item /\ responses[k].page = requests[k].page
    /\ \A m \in 2..Len(requests) :
           /\ requests[m - 1].item <= requests[m].item
           /\ requests[m - 1].item = requests[m].item =>
                  /\ requests[m].page = requests[m - 1].page + 1
                  /\ responses[m - 1].kind = "ok" /\ responses[m - 1].hasNextPage
           /\ requests[m - 1].item < requests[m].item => requests[m].page = 1
    /\ \A m \in 1..Len(requests) : requests[m].item <= i
    /\ pc \in {"awaitPage", "awaitSingle"} => requests[Len(requests)].item = i

\* the second item's first page is outstanding after the three pages of the
\* first item were fetched one after the other
C12_Witness ==
    /\ Len(requests) = 4 /\ Len(responses) = 3
    /\ \A m \in 1..3 : requests[m].item = 0 /\ requests[m].page = m
    /\ requests[4].item = 1
    /\ pc = "awaitPage"

\* C13: every page request asks for a page size in [1, 250]: 250 in a
\* returnAll run, the item's limit in a limited listing, and that limit is
\* within [1, 250] whatever value the parameter resolves to.
C13_PageSizeBound ==
    \A k \in 1..Len(requests) :
        /\ requests[k].kind = "page" => requests[k].first = PageSize
        /\ requests[k].kind = "limited" =>
               requests[k].first = params[requests[k].item + 1].limit
        /\ requests[k].kind \in {"page", "limited"} =>
               requests[k].first \in LimitMinValue..LimitMaxValue

\* C14: each of the six operations the README lists is an operation of the
\* node for which execute builds a non-empty query of its own, and every
\* request sent carries the query of the operation selected.
C14_SupportedOperations ==
    /\ \A n \in ReadmeOperations :
           \E o \in OperationOptions :
               /\ o.name = n
               /\ o.value \in Operations
               /\ BuildQuery(o.value, "limited") # ""
               /\ \A p \in OperationOptions :
                      p.value # o.value =>
                          BuildQuery(p.value, "limited") # BuildQuery(o.value, "limited")
    /\ \A k \in 1..Len(requests) :
           /\ requests[k].query = BuildQuery(operation, requests[k].kind)
           /\ requests[k].query # ""

\* C15: with continue-on-fail, whatever item idx failed with (malformed
\* variables before any request, a transport failure, an errors payload)
\* becomes the one record {error: message} paired with idx, execute does
\* not reject, and the loop has gone on to item idx + 1.
C15_SoftFail ==
    continueOnFail =>
        /\ pc # "failed" /\ thrown = NoError
        /\ \A idx \in 0..(numItems - 1) :
               FailedAt(idx) =>
                   /\ RecordsOf(idx) = {idx + 1}
                   /\ returnData[idx + 1] =
                          [pairedItem |-> idx, key |-> "error", items |-> <<>>,
                           message |-> FailureMessage(idx)]
                   /\ i > idx
                   /\ IF i < numItems
                      THEN pc \in {"item", "awaitPage", "awaitSingle"}
                      ELSE pc = "returned"

\* the first item's variables were malformed, the second item's query was
\* sent and answered, and execute returned both records
C15_Witness ==
    /\ continueOnFail /\ operation = "query" /\ numItems = 2
    /\ pc = "returned"
    /\ params[1].variables = <<>>
    /\ returnData[1].message = "Variables must be valid JSON"
    /\ RequestsOf(0) = 0 /\ RequestsOf(1) = 1
    /\ returnData[2].key = "data"

\* the output holds one record for each item finished so far, in item
\* order, record k paired with item k - 1: that item's error record if it
\* failed, else its result (a returnAll run: one record with all its pages)
OneRecordPerItem ==
    /\ Len(returnData) = i
    /\ pc = "returned" => Len(returnData) = numItems
    /\ \A k \in 1..Len(returnData) :
           LET rec == returnData[k] IN
           /\ rec.pairedItem = k - 1
           /\ IF FailedAt(k - 1)
              THEN rec.key = "error" /\ rec.message = FailureMessage(k - 1)
              ELSE /\ rec.key = (IF IsFetchAll(k - 1) THEN ListingKey ELSE "data")
                   /\ Len(rec.items) = CountFrom(k - 1, 1)
                   /\ IsFetchAll(k - 1) => RequestsOf(k - 1) = PagesOfBackend

\* no step changes or removes a record already in the output
RecordsKept ==
    /\ Len(returnData') >= Len(returnData)
    /\ \A k \in 1..Len(returnData) : returnData'[k] = returnData[k]

\* C16: whenever execute returns, the output holds exactly one record per
\* input item, in input order, record i paired with item i and being that
\* item's result or its error record; records once pushed are never changed
\* or removed by what happens to later items; a returnAll run contributes
\* one record holding all its pages.
C16_OneRecordPerItem == []OneRecordPerItem /\ [][RecordsKept]_vars

\* execute returned two records: the three pages of the first item in one
\* record, then the error record of the second item
C16_Witness ==
    /\ pc = "returned" /\ numItems = 2 /\ Len(returnData) = 2
    /\ IsFetchAll(0) /\ RequestsOf(0) = 3
    /\ returnData[1].key = ListingKey /\ Len(returnData[1].items) = MaxN
    /\ returnData[2].key = "error" /\ returnData[2].pairedItem = 1

====
